---- MODULE Spec2Model ----
(***************************************************************************)
(* Model of the faceless video pipeline: the visual sourcer with its       *)
(* on-disk clip cache, the timeline builder, the audio mixer and the       *)
(* encoder of VideoAssembler.assemble, and the caption chunking and        *)
(* per-frame caption lookup.                                               *)
(*                                                                         *)
(* Time is counted in ticks; one second is TicksPerSec ticks, so the       *)
(* source's 0.5 s, 5 s and 8 s are TicksPerSec/2, 5*TicksPerSec and        *)
(* 8*TicksPerSec ticks.                                                    *)
(***************************************************************************)
EXTENDS Integers, Sequences, FiniteSets, TLC

VARIABLES
    \* ---- run_pipeline / VisualSourcer.source
    pc,               \* position of the run: "source", "assemble", "encode",
                      \* "encode_retry", "done", "failed"
    err,              \* the error that ended the run, "none" while there is none
    started,          \* the pipeline stages that have been entered
    keywords,         \* extract_keywords' result (or the generic fallback)
    sources,          \* VisualSourcer._sources
    target_duration,  \* voice_result.duration, in ticks
    use_nvenc,        \* config.use_nvenc
    clips,            \* source(): the accumulated clip list
    total_duration,   \* source(): the accumulated native duration
    keyword_index,    \* source(): the round-robin counter
    cache,            \* the cache directory: per key, the metadata record and the media file
    last,             \* the last _search_and_download call: what it found and did
    downloads,        \* per key, the download requests issued in this process
    needed_clips,     \* source(): the number of clips aimed for
    attempts,         \* source(): the _search_and_download calls made, in order:
                      \* the key and whether a clip came back
    \* ---- VideoAssembler.assemble
    video_clips,      \* the spans placed on the timeline
    final_video,      \* the duration of the finished visual track (<<>> before it exists)
    final_audio,      \* the audio track: the voice, and the music layer when mixed
    encode_writes,    \* the write_videofile calls made, in order: codec and success
    output_path,      \* the path assemble returned (<<>> while it has returned none)
    \* ---- VideoAssembler._add_captions
    cpc,              \* "words", "chunked", "frame"
    words,            \* caption_result.words
    chunks,           \* _chunk_words' result
    frame_t,          \* the playback time of the last frame query
    frame,            \* the frame the last query returned
    \* ---- VisualSourcer._search_pexels / _search_pixabay: candidate selection
    videos,           \* the search response: the candidates with their renditions
    selected,         \* the rendition handed to _download_clip (<<>> when none)
    \* ---- two runs sharing the cache directory, on one key
    rpc,              \* per run, its position in _search_and_download / _download_clip
    roff,             \* per run, the chunks its open file handle has written
    rfile,            \* <key>.mp4: <<>> when absent, else <<the set of chunks present>>
    rmeta,            \* whether <key>.json exists
    rhit              \* per run, what its cache check returned

srcVars == <<pc, err, started, keywords, sources, target_duration, use_nvenc, clips,
             total_duration, keyword_index, cache, last, downloads, needed_clips,
             attempts>>
asmVars == <<video_clips, final_video, final_audio, encode_writes, output_path>>
capVars == <<cpc, words, chunks, frame_t, frame>>
selVars == <<videos, selected>>
raceVars == <<rpc, roff, rfile, rmeta, rhit>>
vars == <<srcVars, asmVars, capVars, selVars, raceVars>>

----------------------------------------------------------------------------
(* Bounds *)

TicksPerSec == 4     \* resolution of time
MaxKeywords == 2     \* most keywords a script yields in the model (the code allows 10)

Max(a, b) == IF a >= b THEN a ELSE b
Min(a, b) == IF a <= b THEN a ELSE b

\* Native durations of the clips the providers offer: 0.25 s, 10 s.
ClipDurations == {1, 10 * TicksPerSec}
\* Narration lengths: 2.5 s, 12.25 s.
TargetDurations == {(5 * TicksPerSec) \div 2, 12 * TicksPerSec + 1}

Providers == {"pexels", "pixabay"}

----------------------------------------------------------------------------
(* VisualSourcer: the clip cache *)

\* The cache key: md5 of "<source>:<keyword>".
CacheKey(source, keyword) == <<source, keyword>>

\* The keys a run with n keywords can touch.
Keys(n) == Providers \X (1 .. n)

\* A cache directory entry: the metadata record <key>.json (<<>> when there
\* is none, else <<duration>>) and the media file <key>.mp4 (<<>> when there
\* is none, else <<f>> with f.complete telling whether every byte of the
\* download was written and f.duration the native duration of the footage).
NoEntry == [meta |-> <<>>, file |-> <<>>]
ValidEntry(d) == [meta |-> <<d>>, file |-> <<[complete |-> TRUE, duration |-> d]>>]
StaleEntry(d) == [meta |-> <<d>>, file |-> <<>>]

\* Variant: the metadata record alone is trusted.
IsCacheHitMetaOnly(c, key) == c[key].meta # <<>>

\* meta_path.exists() and Path(meta["path"]).exists()
IsCacheHit(c, key) == c[key].meta # <<>> /\ c[key].file # <<>>

\* What _search_and_download found in the cache directory for the key.
CacheLook(c, key) ==
    IF c[key].meta = <<>> THEN "absent"
    ELSE IF c[key].file = <<>> THEN "stale"
    ELSE "present"

\* What the network answers to one attempt: the search request fails, or
\* returns no usable candidate, or returns one of native duration `duration`;
\* the download request fails before any byte is written, fails while the
\* file is being streamed, or completes.
Responses ==
    [search : {"fail", "empty"}, duration : {0}, download : {"none"}]
    \cup [search : {"ok"}, duration : ClipDurations,
          download : {"fail_request", "fail_stream", "ok"}]

\* Variant: a download that fails while streaming still returns the clip.
DownloadClipKeepsPartial(c, key, resp) ==
    IF resp.download = "fail_request"
    THEN [clip |-> <<>>, cache |-> c, outcome |-> "download_failed"]
    ELSE IF resp.download = "fail_stream"
    THEN [clip |-> <<[key |-> key, duration |-> resp.duration]>>,
          cache |-> [c EXCEPT ![key].file =
                        <<[complete |-> FALSE, duration |-> resp.duration]>>],
          outcome |-> "download_failed"]
    ELSE [clip |-> <<[key |-> key, duration |-> resp.duration]>>,
          cache |-> [c EXCEPT ![key] = ValidEntry(resp.duration)],
          outcome |-> "downloaded"]

\* _download_clip: the request, the chunked write of <key>.mp4, then the
\* metadata record. A RequestException leaves what was written so far and
\* writes no metadata.
DownloadClip(c, key, resp) ==
    IF resp.download = "fail_request"
    THEN [clip |-> <<>>, cache |-> c, outcome |-> "download_failed"]
    ELSE IF resp.download = "fail_stream"
    THEN [clip |-> <<>>,
          cache |-> [c EXCEPT ![key].file =
                        <<[complete |-> FALSE, duration |-> resp.duration]>>],
          outcome |-> "download_failed"]
    ELSE [clip |-> <<[key |-> key, duration |-> resp.duration]>>,
          cache |-> [c EXCEPT ![key] = ValidEntry(resp.duration)],
          outcome |-> "downloaded"]

\* _search_pexels / _search_pixabay: the search request, then the download
\* of the selected candidate.
SearchProvider(c, key, resp) ==
    IF resp.search = "fail"
    THEN [clip |-> <<>>, cache |-> c, outcome |-> "search_failed"]
    ELSE IF resp.search = "empty"
    THEN [clip |-> <<>>, cache |-> c, outcome |-> "no_candidate"]
    ELSE DownloadClip(c, key, resp)

\* _search_and_download: the cache check, then the provider.
SearchAndDownload(c, key, resp) ==
    IF IsCacheHit(c, key)
    THEN [clip |-> <<[key |-> key, duration |-> c[key].meta[1]]>>,
          cache |-> c, outcome |-> "hit"]
    ELSE SearchProvider(c, key, resp)

Downloaded(outcome) == outcome \in {"download_failed", "downloaded"}

----------------------------------------------------------------------------
(* VisualSourcer.source *)

ClipTargetSec == 5   \* clip_target = 5.0
MinClips == 3        \* the 3 of max(3, ...)

\* needed_clips = max(3, int(target_duration / clip_target)); int() truncates
NeededClips(target) == Max(MinClips, target \div (ClipTargetSec * TicksPerSec))

\* Variant: one round over the keywords only.
LoopBudgetOnce(kws) == Len(kws)

\* the while loop's budget: len(keywords) * 2
LoopBudget(kws) == Len(kws) * 2

\* keywords[keyword_index % len(keywords)], read before the increment
KeywordAt(kws, ki) == kws[(ki % Len(kws)) + 1]

\* self._sources[keyword_index % len(self._sources)], read after the increment
SourceAt(srcs, ki) == srcs[(ki % Len(srcs)) + 1]

\* the while condition
LoopContinues(total, target, ki, kws) == total < target /\ ki < LoopBudget(kws)

\* the break inside the loop, taken after a clip was appended
LoopBreaks(cl, total, target) == Len(cl) >= NeededClips(target) /\ total >= target

\* One iteration of the while loop of source(), the loop's exit included:
\* when the iteration breaks, or the while condition no longer holds, source()
\* raises if it holds no clip and returns its clips to run_pipeline otherwise.
SourceIteration(resp) ==
    /\ pc = "source"
    /\ LoopContinues(total_duration, target_duration, keyword_index, keywords)
    /\ LET keyword == KeywordAt(keywords, keyword_index)
           ki      == keyword_index + 1
           source  == SourceAt(sources, ki)
           key     == CacheKey(source, keyword)
           r       == SearchAndDownload(cache, key, resp)
           got     == r.clip # <<>>
           cl      == IF got THEN Append(clips, r.clip[1]) ELSE clips
           total   == IF got THEN total_duration + r.clip[1].duration ELSE total_duration
           exits   == \/ got /\ LoopBreaks(cl, total, target_duration)
                      \/ ~LoopContinues(total, target_duration, ki, keywords)
       IN  /\ keyword_index' = ki
           /\ clips' = cl
           /\ total_duration' = total
           /\ cache' = r.cache
           /\ last' = [key |-> key, look |-> CacheLook(cache, key), outcome |-> r.outcome,
                       clips_before |-> clips, total_before |-> total_duration]
           /\ downloads' = [downloads EXCEPT ![key] = @ + (IF Downloaded(r.outcome) THEN 1 ELSE 0)]
           /\ attempts' = Append(attempts, [key |-> key, got |-> got])
           /\ IF ~exits
              THEN pc' = "source" /\ UNCHANGED <<err, started>>
              ELSE IF cl = <<>>
              THEN pc' = "failed" /\ err' = "sourcing_exhausted" /\ UNCHANGED started
              ELSE pc' = "assemble" /\ started' = started \cup {"assembly"} /\ UNCHANGED err
    /\ UNCHANGED <<keywords, sources, target_duration, use_nvenc, needed_clips,
                   asmVars, capVars, selVars, raceVars>>

----------------------------------------------------------------------------
(* VideoAssembler.assemble: the timeline *)

ClipCapSec == 8      \* the 8.0 of min(clip.duration, remaining, 8.0)

\* Variant: no span is too short for the first pass.
TooShortNever(use_dur) == FALSE

\* use_dur < 0.5
TooShort(use_dur) == 2 * use_dur < TicksPerSec

\* clip.subclipped(0, end): the first `end` ticks of a clip of `duration`
\* ticks, <<>> when moviepy refuses an end beyond the clip's duration.
Subclipped(duration, end) == IF end <= duration THEN <<end>> ELSE <<>>

\* The first pass, from clip i on: natives[i] is the duration VideoFileClip
\* reads from the i-th clip's file.
RECURSIVE FirstPass(_, _, _, _, _)
FirstPass(natives, i, vc, total, target) ==
    IF i > Len(natives) THEN [video_clips |-> vc, total |-> total]
    ELSE LET remaining == target - total
             use_dur   == Min(Min(natives[i], remaining), ClipCapSec * TicksPerSec)
         IN  IF remaining <= 0 THEN [video_clips |-> vc, total |-> total]
             ELSE IF TooShort(use_dur) THEN [video_clips |-> vc, total |-> total]
             ELSE FirstPass(natives, i + 1,
                            Append(vc, [clip |-> i, duration |-> use_dur, looped |-> FALSE]),
                            total + use_dur, target)

\* The for loop of the loop pass over `copy`, the list as it was when the
\* for loop started, from its j-th span on.
RECURSIVE LoopFor(_, _, _, _, _)
LoopFor(copy, j, vc, total, target) ==
    IF j > Len(copy) \/ total >= target THEN [video_clips |-> vc, total |-> total]
    ELSE LET remaining == target - total
             use_dur   == Min(copy[j].duration, remaining)
         IN  LoopFor(copy, j + 1,
                     Append(vc, [clip |-> copy[j].clip, duration |-> use_dur, looped |-> TRUE]),
                     total + use_dur, target)

\* while total_clip_dur < target_duration: one for loop over a copy of the list
RECURSIVE LoopPass(_, _, _)
LoopPass(vc, total, target) ==
    IF total < target
    THEN LET r == LoopFor(vc, 1, vc, total, target)
         IN  LoopPass(r.video_clips, r.total, target)
    ELSE [video_clips |-> vc, total |-> total]

RECURSIVE SumDurations(_)
SumDurations(vc) == IF vc = <<>> THEN 0 ELSE vc[1].duration + SumDurations(Tail(vc))

\* concatenate_videoclips (or the single clip), clipped to the target:
\* final_video.subclipped(0, min(final_video.duration, target_duration))
FinalVideo(vc, target) ==
    LET duration == SumDurations(vc)
    IN  Subclipped(duration, Min(duration, target))

----------------------------------------------------------------------------
(* utils.audio_processor.mix_audio *)

\* Variant: the repetitions are not rounded up.
LoopsNeededFloor(music, target) == target \div music

\* loops_needed = int(target_duration / music.duration) + 1
LoopsNeeded(music, target) == target \div music + 1

\* The music layer of the mix: looped when shorter than the target, then
\* music.subclipped(0, target_duration). <<>> when subclipped refuses.
MixAudio(music, target) ==
    LET loops  == IF music < target THEN LoopsNeeded(music, target) ELSE 1
        looped == music * loops
        cut    == Subclipped(looped, target)
    IN  IF cut = <<>> THEN <<>>
        ELSE <<[source |-> music, loops |-> loops, looped |-> looped, duration |-> cut[1]]>>

\* The music argument of assemble: no path, a path that does not exist, or
\* a music file of 0.25 s, 1.75 s, 2.5 s or 30 s.
MusicDurations == {1, 2 * TicksPerSec - 1, (5 * TicksPerSec) \div 2, 30 * TicksPerSec}
MusicInputs ==
    [path : {"none", "nonexistent"}, duration : {0}]
    \cup [path : {"file"}, duration : MusicDurations]

NoMusic == [path |-> "none", duration |-> 0]

\* if music_path and Path(music_path).exists()
MusicUsed(music) == music.path = "file"

----------------------------------------------------------------------------
(* VideoAssembler.assemble, up to the export *)

\* The files behind the sourced clips, as VideoFileClip finds them; a path
\* with no file behind it cannot be opened.
ClipFiles(cl, c) ==
    [i \in 1 .. Len(cl) |->
        IF c[cl[i].key].file = <<>> THEN [complete |-> FALSE, duration |-> 0, missing |-> TRUE]
        ELSE [complete |-> c[cl[i].key].file[1].complete,
              duration |-> c[cl[i].key].file[1].duration, missing |-> FALSE]]

\* assemble() from its start to the first write_videofile call. `decodes`
\* tells whether VideoFileClip can open a media file whose download stopped
\* part-way (it then reports the footage's duration); music is the
\* music_path argument.
Assemble(music, decodes) ==
    /\ pc = "assemble"
    /\ LET files   == ClipFiles(clips, cache)
           natives == [i \in 1 .. Len(files) |-> files[i].duration]
           first   == FirstPass(natives, 1, <<>>, 0, target_duration)
           filled  == LoopPass(first.video_clips, first.total, target_duration)
           video   == FinalVideo(filled.video_clips, target_duration)
           layer   == IF MusicUsed(music) THEN MixAudio(music.duration, target_duration)
                      ELSE <<>>
           \* the first pass opens the clips it takes and the one it stops at
           opened  == 1 .. Min(Len(files), Len(first.video_clips) + 1)
       IN  IF \E i \in opened : files[i].missing \/ (~decodes /\ ~files[i].complete)
           THEN /\ pc' = "failed" /\ err' = "decode"
                /\ UNCHANGED asmVars
           ELSE IF first.video_clips = <<>>
           THEN /\ pc' = "failed" /\ err' = "no_video_clips"
                /\ UNCHANGED asmVars
           ELSE IF MusicUsed(music) /\ layer = <<>>
           THEN /\ pc' = "failed" /\ err' = "audio"
                /\ video_clips' = filled.video_clips
                /\ final_video' = video
                /\ UNCHANGED <<final_audio, encode_writes, output_path>>
           ELSE /\ pc' = "encode" /\ UNCHANGED err
                /\ video_clips' = filled.video_clips
                /\ final_video' = video
                /\ final_audio' = <<[voice |-> target_duration, music_path |-> music.path,
                                     music |-> layer]>>
                /\ UNCHANGED <<encode_writes, output_path>>
    /\ UNCHANGED <<started, keywords, sources, target_duration, use_nvenc, clips,
                   needed_clips, attempts, selVars, raceVars,
                   total_duration, keyword_index, cache, last, downloads, capVars>>

----------------------------------------------------------------------------
(* VideoAssembler.assemble: the export *)

\* codec = "h264_nvenc" if self.config.use_nvenc else "libx264"
FirstCodec(nvenc) == IF nvenc THEN "h264_nvenc" ELSE "libx264"

\* Variant: the except branch retries whatever the configuration.
RetryAlways(nvenc) == TRUE

\* the except branch: a second write only if self.config.use_nvenc
RetryAllowed(nvenc) == nvenc

\* The first write_videofile call; ok tells whether the encoder succeeds.
EncodeFirst(ok) ==
    /\ pc = "encode"
    /\ encode_writes' = Append(encode_writes, [codec |-> FirstCodec(use_nvenc), ok |-> ok])
    /\ IF ok
       THEN pc' = "done" /\ output_path' = <<"output">> /\ UNCHANGED err
       ELSE IF RetryAllowed(use_nvenc)
       THEN pc' = "encode_retry" /\ UNCHANGED <<output_path, err>>
       ELSE pc' = "failed" /\ err' = "encode" /\ UNCHANGED output_path
    /\ UNCHANGED <<started, keywords, sources, target_duration, use_nvenc, clips,
                   needed_clips, attempts, selVars, raceVars,
                   total_duration, keyword_index, cache, last, downloads,
                   video_clips, final_video, final_audio, capVars>>

\* The write_videofile call of the except branch.
EncodeRetry(ok) ==
    /\ pc = "encode_retry"
    /\ encode_writes' = Append(encode_writes, [codec |-> "libx264", ok |-> ok])
    /\ IF ok
       THEN pc' = "done" /\ output_path' = <<"output">> /\ UNCHANGED err
       ELSE pc' = "failed" /\ err' = "encode" /\ UNCHANGED output_path
    /\ UNCHANGED <<started, keywords, sources, target_duration, use_nvenc, clips,
                   needed_clips, attempts, selVars, raceVars,
                   total_duration, keyword_index, cache, last, downloads,
                   video_clips, final_video, final_audio, capVars>>

----------------------------------------------------------------------------
(* VideoAssembler._chunk_words and _add_captions.make_frame_with_caption *)

ChunkMaxWords == 4   \* max_words=4
MaxWords == 9        \* bound: longest transcript

\* The gap between one word's end and the next word's start; every word
\* lasts one tick.
WordGaps == {0, 2}

\* A transcript with the given gaps: monotonically non-decreasing timestamps.
RECURSIVE BuildWords(_, _, _)
BuildWords(gaps, i, at) ==
    IF i > Len(gaps) THEN <<>>
    ELSE <<[word |-> i, start |-> at + gaps[i], end |-> at + gaps[i] + 1]>>
         \o BuildWords(gaps, i + 1, at + gaps[i] + 1)

Transcripts ==
    UNION {{BuildWords(g, 1, 0) : g \in [1 .. n -> WordGaps]} : n \in 0 .. MaxWords}

\* _chunk_words from word index i (0-based, as in the code) on.
RECURSIVE ChunkFrom(_, _)
ChunkFrom(ws, i) ==
    IF i < Len(ws)
    THEN LET end         == Min(i + ChunkMaxWords, Len(ws))
             chunk_words == SubSeq(ws, i + 1, end)
         IN  <<[text  |-> [k \in 1 .. Len(chunk_words) |-> chunk_words[k].word],
                start |-> chunk_words[1].start,
                end   |-> chunk_words[Len(chunk_words)].end]>>
             \o ChunkFrom(ws, end)
    ELSE <<>>

\* Variant: a last chunk of fewer than max_words words is dropped.
RECURSIVE ChunkFullFrom(_, _)
ChunkFullFrom(ws, i) ==
    IF i + ChunkMaxWords <= Len(ws)
    THEN LET chunk_words == SubSeq(ws, i + 1, i + ChunkMaxWords)
         IN  <<[text  |-> [k \in 1 .. Len(chunk_words) |-> chunk_words[k].word],
                start |-> chunk_words[1].start,
                end   |-> chunk_words[Len(chunk_words)].end]>>
             \o ChunkFullFrom(ws, i + ChunkMaxWords)
    ELSE <<>>

ChunkWordsDropTail(ws) == ChunkFullFrom(ws, 0)

ChunkWords(ws) == ChunkFrom(ws, 0)

\* chunk["start"] <= t <= chunk["end"]
ChunkCovers(chunk, t) == chunk.start <= t /\ t <= chunk.end

\* Variant: the loop has no break, so the last covering chunk wins.
RECURSIVE ActiveChunkLast(_, _, _)
ActiveChunkLast(chs, k, t) ==
    IF k > Len(chs) THEN <<>>
    ELSE LET later == ActiveChunkLast(chs, k + 1, t)
         IN  IF later # <<>> THEN later
             ELSE IF ChunkCovers(chs[k], t) THEN <<chs[k]>>
             ELSE <<>>

\* The for loop with its break: the first chunk, from the k-th on, that
\* covers t (<<>> when none does).
RECURSIVE ActiveChunk(_, _, _)
ActiveChunk(chs, k, t) ==
    IF k > Len(chs) THEN <<>>
    ELSE IF ChunkCovers(chs[k], t) THEN <<chs[k]>>
    ELSE ActiveChunk(chs, k + 1, t)

\* get_frame(t): the frame of the underlying track.
BaseFrame(t) == [t |-> t, caption |-> <<>>]

\* make_frame_with_caption(get_frame, t)
MakeFrameWithCaption(chs, t) ==
    LET active_chunk == ActiveChunk(chs, 1, t)
    IN  IF active_chunk = <<>> THEN BaseFrame(t)
        ELSE [BaseFrame(t) EXCEPT !.caption = <<active_chunk[1].text>>]

\* _add_captions: the words are chunked once.
AddCaptions ==
    /\ cpc = "words"
    /\ chunks' = ChunkWords(words)
    /\ cpc' = "chunked"
    /\ UNCHANGED <<words, frame_t, frame, srcVars, asmVars, selVars, raceVars>>

\* The encoder asks the captioned track for the frame at time t.
QueryFrame(t) ==
    /\ cpc \in {"chunked", "frame"}
    /\ frame_t' = t
    /\ frame' = <<MakeFrameWithCaption(chunks, t)>>
    /\ cpc' = "frame"
    /\ UNCHANGED <<words, chunks, srcVars, asmVars, selVars, raceVars>>

\* The playback times queried: from 0 to one tick past the last word.
QueryTimes(ws) == 0 .. (IF ws = <<>> THEN 1 ELSE ws[Len(ws)].end + 1)

----------------------------------------------------------------------------
(* Specifications *)

\* The sources the constructor configures: one provider, or both.
SourceLists == {<<"pexels">>, <<"pixabay">>, <<"pexels", "pixabay">>}

\* Cache directories a run can start from: empty, or holding for the key
\* the run queries first a valid entry left by an earlier run or a stale one
\* (its media file deleted since).
InitialCaches(n, srcs) ==
    {[k \in Keys(n) |-> IF k = CacheKey(SourceAt(srcs, 1), 1) THEN e ELSE NoEntry] :
        e \in {NoEntry, ValidEntry(10 * TicksPerSec), StaleEntry(10 * TicksPerSec)}}

NoCall == [key |-> <<>>, look |-> "none", outcome |-> "none",
           clips_before |-> <<>>, total_before |-> 0]

AsmIdle ==
    /\ video_clips = <<>>
    /\ final_video = <<>>
    /\ final_audio = <<>>
    /\ encode_writes = <<>>
    /\ output_path = <<>>

SelIdle ==
    /\ videos = <<>>
    /\ selected = <<>>

RaceIdle ==
    /\ rpc = <<>>
    /\ roff = <<>>
    /\ rfile = <<>>
    /\ rmeta = FALSE
    /\ rhit = <<>>

CapIdle ==
    /\ cpc = "idle"
    /\ words = <<>>
    /\ chunks = <<>>
    /\ frame_t = 0
    /\ frame = <<>>

\* run_pipeline at the start of stage 4, with the default configuration
\* (use_nvenc: bool = True) and no music: the script, the voice and the
\* captions exist, the sourcer is constructed and source() has set its locals.
Init ==
    /\ pc = "source"
    /\ err = "none"
    /\ started = {"visuals"}
    /\ sources \in SourceLists
    /\ \E n \in 1 .. MaxKeywords :
         /\ keywords = [i \in 1 .. n |-> i]
         /\ cache \in InitialCaches(n, sources)
         /\ downloads = [k \in Keys(n) |-> 0]
    /\ target_duration \in TargetDurations
    /\ use_nvenc = TRUE
    /\ clips = <<>>
    /\ total_duration = 0
    /\ keyword_index = 0
    /\ last = NoCall
    /\ attempts = <<>>
    /\ needed_clips = NeededClips(target_duration)
    /\ SelIdle
    /\ RaceIdle
    /\ AsmIdle
    /\ CapIdle

Next ==
    \/ \E resp \in Responses : SourceIteration(resp)
    \/ \E decodes \in BOOLEAN : Assemble(NoMusic, decodes)
    \/ \E ok \in BOOLEAN : EncodeFirst(ok)
    \/ \E ok \in BOOLEAN : EncodeRetry(ok)

Spec == Init /\ [][Next]_vars

\* The caption renderer on every transcript within the bound.
InitCaption ==
    /\ pc = "idle"
    /\ err = "none"
    /\ started = {}
    /\ keywords = <<>>
    /\ sources = <<>>
    /\ target_duration = 0
    /\ use_nvenc = FALSE
    /\ clips = <<>>
    /\ total_duration = 0
    /\ keyword_index = 0
    /\ cache = <<>>
    /\ last = NoCall
    /\ attempts = <<>>
    /\ needed_clips = NeededClips(target_duration)
    /\ SelIdle
    /\ RaceIdle
    /\ downloads = <<>>
    /\ AsmIdle
    /\ cpc = "words"
    /\ words \in Transcripts
    /\ chunks = <<>>
    /\ frame_t = 0
    /\ frame = <<>>

NextCaption ==
    \/ AddCaptions
    \/ \E t \in QueryTimes(words) : QueryFrame(t)

SpecCaption == InitCaption /\ [][NextCaption]_vars

\* assemble() on every clip list within the bounds: up to MaxClips clips,
\* of 0.25 s, 3 s, 8.25 s or 10 s, each completely downloaded; a narration of 0.25 s,
\* 2.5 s, 12.25 s or 21 s; either encoder setting.
MaxClips == 3

AssembleDurations == {1, 3 * TicksPerSec, 8 * TicksPerSec + 1, 10 * TicksPerSec}
AssembleTargets ==
    {1, (5 * TicksPerSec) \div 2, 12 * TicksPerSec + 1, 21 * TicksPerSec}

ClipSets ==
    UNION {[1 .. n -> [complete : {TRUE}, duration : AssembleDurations]] : n \in 1 .. MaxClips}

InitAssemble ==
    /\ pc = "assemble"
    /\ err = "none"
    /\ started = {"visuals", "assembly"}
    /\ sources = <<"pexels">>
    /\ target_duration \in AssembleTargets
    /\ use_nvenc \in BOOLEAN
    /\ \E files \in ClipSets :
         /\ keywords = [i \in 1 .. Len(files) |-> i]
         /\ clips = [i \in 1 .. Len(files) |->
                        [key |-> CacheKey("pexels", i), duration |-> files[i].duration]]
         /\ cache = [k \in Keys(Len(files)) |->
                        IF k[1] = "pexels"
                        THEN [meta |-> <<files[k[2]].duration>>, file |-> <<files[k[2]]>>]
                        ELSE NoEntry]
         /\ downloads = [k \in Keys(Len(files)) |-> 0]
    /\ total_duration = 0
    /\ keyword_index = 0
    /\ last = NoCall
    /\ attempts = <<>>
    /\ needed_clips = NeededClips(target_duration)
    /\ SelIdle
    /\ RaceIdle
    /\ AsmIdle
    /\ CapIdle

NextAssemble ==
    \/ \E music \in MusicInputs, decodes \in BOOLEAN : Assemble(music, decodes)
    \/ \E ok \in BOOLEAN : EncodeFirst(ok)
    \/ \E ok \in BOOLEAN : EncodeRetry(ok)

SpecAssemble == InitAssemble /\ [][NextAssemble]_vars

\* source() from its entry: the locals of lines 56-60 are set from the target
\* duration, for every narration length up to MaxTargetSec seconds.
MaxTargetSec == 30

SetupTargets == 1 .. MaxTargetSec * TicksPerSec

SourceSetup ==
    /\ pc = "setup"
    /\ clips' = <<>>
    /\ total_duration' = 0
    /\ needed_clips' = NeededClips(target_duration)
    /\ keyword_index' = 0
    /\ pc' = "source"
    /\ UNCHANGED <<err, started, keywords, sources, target_duration, use_nvenc, cache,
                   last, downloads, attempts, asmVars, capVars, selVars, raceVars>>

InitNeeded ==
    /\ pc = "setup"
    /\ err = "none"
    /\ started = {"visuals"}
    /\ sources = <<"pexels">>
    /\ keywords = <<1>>
    /\ cache = [k \in Keys(1) |-> NoEntry]
    /\ downloads = [k \in Keys(1) |-> 0]
    /\ target_duration \in SetupTargets
    /\ use_nvenc = TRUE
    /\ clips = <<>>
    /\ total_duration = 0
    /\ keyword_index = 0
    /\ last = NoCall
    /\ attempts = <<>>
    /\ needed_clips = 0
    /\ SelIdle
    /\ RaceIdle
    /\ AsmIdle
    /\ CapIdle

NextNeeded == SourceSetup

SpecNeeded == InitNeeded /\ [][NextNeeded]_vars

----------------------------------------------------------------------------
(* VisualSourcer._search_pexels / _search_pixabay: choosing the download *)

MinHeight == 720     \* h >= 720
MaxCandidates == 2   \* most candidates in a search response (per_page allows 5)
MaxRenditions == 2   \* most video_files of a Pexels candidate

\* Rendition heights: one below the threshold, the threshold, one above.
Heights == {480, 720, 1080}
\* Heights of the Pixabay renditions.
PixabayHeights == {480, 1080}

\* The scan over one candidate's video_files: the tallest rendition of at
\* least MinHeight, the earlier one on equal heights; 0 while there is none.
RECURSIVE BestFrom(_, _, _)
BestFrom(video_files, i, best) ==
    IF i > Len(video_files) THEN best
    ELSE LET h == video_files[i].height
         IN  IF h >= MinHeight /\ (best = 0 \/ h > video_files[best].height)
             THEN BestFrom(video_files, i + 1, i)
             ELSE BestFrom(video_files, i + 1, best)

\* best_file of one candidate: the scan's result, else video_files[0], else
\* none (0).
BestFile(video_files) ==
    LET best == BestFrom(video_files, 1, 0)
    IN  IF best # 0 THEN best
        ELSE IF video_files # <<>> THEN 1
        ELSE 0

\* for video in data["videos"]: the first candidate that has a best_file.
RECURSIVE PexelsFrom(_, _)
PexelsFrom(vs, i) ==
    IF i > Len(vs) THEN <<>>
    ELSE LET b == BestFile(vs[i].video_files)
         IN  IF b = 0 THEN PexelsFrom(vs, i + 1)
             ELSE <<[video |-> i, height |-> vs[i].video_files[b].height]>>

\* videos.get("large") or videos.get("medium") or videos.get("small")
PixabayBest(v) ==
    IF v.large # <<>> THEN v.large
    ELSE IF v.medium # <<>> THEN v.medium
    ELSE v.small

\* for hit in data["hits"]: the first hit that has a rendition.
RECURSIVE PixabayFrom(_, _)
PixabayFrom(hits, i) ==
    IF i > Len(hits) THEN <<>>
    ELSE LET best == PixabayBest(hits[i].videos)
         IN  IF best = <<>> THEN PixabayFrom(hits, i + 1)
             ELSE <<[video |-> i, height |-> best[1].height]>>

\* The outcomes of the download of the selected rendition.
DownloadOutcomes == {"fail_request", "fail_stream", "ok"}

\* What follows the choice: _download_clip on the chosen rendition, or
\* return None when no candidate has one.
SelectAndDownload(choice, how) ==
    /\ selected' = choice
    /\ LET key == CacheKey(sources[1], keywords[1])
           r   == IF choice = <<>>
                  THEN [clip |-> <<>>, cache |-> cache, outcome |-> "no_candidate"]
                  ELSE DownloadClip(cache, key,
                           [search |-> "ok", duration |-> 10 * TicksPerSec,
                            download |-> how])
       IN  /\ cache' = r.cache
           /\ clips' = r.clip
           /\ last' = [key |-> key, look |-> CacheLook(cache, key),
                       outcome |-> r.outcome, clips_before |-> clips,
                       total_before |-> total_duration]
    /\ pc' = "searched"
    /\ UNCHANGED <<err, started, keywords, sources, target_duration, use_nvenc,
                   total_duration, keyword_index, downloads, needed_clips, attempts,
                   videos, asmVars, capVars, raceVars>>

\* _search_pexels after a search response that parsed.
SearchPexels(how) ==
    /\ pc = "search"
    /\ sources[1] = "pexels"
    /\ SelectAndDownload(PexelsFrom(videos, 1), how)

\* _search_pixabay after a search response that parsed.
SearchPixabay(how) ==
    /\ pc = "search"
    /\ sources[1] = "pixabay"
    /\ SelectAndDownload(PixabayFrom(videos, 1), how)

\* The search responses: up to MaxCandidates candidates; a Pexels candidate
\* lists up to MaxRenditions renditions, a Pixabay hit has each of its three
\* sizes or not.
PexelsVideos ==
    LET files == UNION {[1 .. m -> [height : Heights]] : m \in 0 .. MaxRenditions}
    IN  UNION {[1 .. n -> [video_files : files]] : n \in 0 .. MaxCandidates}

PixabayHits ==
    LET size == {<<>>} \cup {<<[height |-> h]>> : h \in PixabayHeights}
    IN  UNION {[1 .. n -> [videos : [large : size, medium : size, small : size]]] :
                  n \in 0 .. MaxCandidates}

\* _search_and_download on a cache miss, the search response received.
InitSelect ==
    /\ pc = "search"
    /\ err = "none"
    /\ started = {"visuals"}
    /\ \/ sources = <<"pexels">> /\ videos \in PexelsVideos
       \/ sources = <<"pixabay">> /\ videos \in PixabayHits
    /\ keywords = <<1>>
    /\ cache = [k \in Keys(1) |-> NoEntry]
    /\ downloads = [k \in Keys(1) |-> 0]
    /\ target_duration = 12 * TicksPerSec + 1
    /\ use_nvenc = TRUE
    /\ clips = <<>>
    /\ total_duration = 0
    /\ keyword_index = 1
    /\ last = NoCall
    /\ attempts = <<>>
    /\ needed_clips = NeededClips(target_duration)
    /\ selected = <<>>
    /\ RaceIdle
    /\ AsmIdle
    /\ CapIdle

NextSelect ==
    \/ \E how \in DownloadOutcomes : SearchPexels(how)
    \/ \E how \in DownloadOutcomes : SearchPixabay(how)

SpecSelect == InitSelect /\ [][NextSelect]_vars

----------------------------------------------------------------------------
(* Two runs of the pipeline sharing the cache directory *)

MaxChunks == 2       \* chunks iter_content delivers for the media file

Runs == {1, 2}
AllChunks == 1 .. MaxChunks

\* The cache check of _search_and_download: a hit when <key>.json and the
\* <key>.mp4 it names both exist; the run then returns the file as it is.
CacheCheck(r) ==
    /\ rpc[r] = "check"
    /\ IF rmeta /\ rfile # <<>>
       THEN /\ rhit' = [rhit EXCEPT ![r] = <<[complete |-> rfile[1] = AllChunks]>>]
            /\ rpc' = [rpc EXCEPT ![r] = "done"]
       ELSE /\ rpc' = [rpc EXCEPT ![r] = "search"]
            /\ UNCHANGED rhit
    /\ UNCHANGED <<roff, rfile, rmeta, srcVars, asmVars, capVars, selVars>>

\* The provider search: it fails or has no usable candidate (return None),
\* or a candidate is handed to _download_clip.
SearchRequest(r, found) ==
    /\ rpc[r] = "search"
    /\ rpc' = [rpc EXCEPT ![r] = IF found THEN "request" ELSE "done"]
    /\ UNCHANGED <<roff, rfile, rmeta, rhit, srcVars, asmVars, capVars, selVars>>

\* requests.get(url, stream=True) and raise_for_status()
DownloadRequest(r, ok) ==
    /\ rpc[r] = "request"
    /\ rpc' = [rpc EXCEPT ![r] = IF ok THEN "open" ELSE "done"]
    /\ UNCHANGED <<roff, rfile, rmeta, rhit, srcVars, asmVars, capVars, selVars>>

\* open(video_path, "wb"): creates the file or truncates it to length 0
OpenFile(r) ==
    /\ rpc[r] = "open"
    /\ rfile' = <<{}>>
    /\ roff' = [roff EXCEPT ![r] = 0]
    /\ rpc' = [rpc EXCEPT ![r] = "write"]
    /\ UNCHANGED <<rmeta, rhit, srcVars, asmVars, capVars, selVars>>

\* f.write(chunk): the next chunk, at this handle's own offset
WriteChunk(r) ==
    /\ rpc[r] = "write"
    /\ roff[r] < MaxChunks
    /\ rfile' = <<rfile[1] \cup {roff[r] + 1}>>
    /\ roff' = [roff EXCEPT ![r] = @ + 1]
    /\ UNCHANGED <<rpc, rmeta, rhit, srcVars, asmVars, capVars, selVars>>

\* iter_content raises a RequestException: return None, the file stays
StreamFails(r) ==
    /\ rpc[r] = "write"
    /\ roff[r] < MaxChunks
    /\ rpc' = [rpc EXCEPT ![r] = "done"]
    /\ UNCHANGED <<roff, rfile, rmeta, rhit, srcVars, asmVars, capVars, selVars>>

\* the stream is exhausted and the with block closes the file
CloseFile(r) ==
    /\ rpc[r] = "write"
    /\ roff[r] = MaxChunks
    /\ rpc' = [rpc EXCEPT ![r] = "meta"]
    /\ UNCHANGED <<roff, rfile, rmeta, rhit, srcVars, asmVars, capVars, selVars>>

\* meta_path.write_text(json.dumps(meta)) and the return
WriteMeta(r) ==
    /\ rpc[r] = "meta"
    /\ rmeta' = TRUE
    /\ rpc' = [rpc EXCEPT ![r] = "done"]
    /\ UNCHANGED <<roff, rfile, rhit, srcVars, asmVars, capVars, selVars>>

\* Both runs are about to call _search_and_download for the same key; the
\* directory holds no entry for it, a valid one, or a stale one.
InitRace ==
    /\ pc = "idle"
    /\ err = "none"
    /\ started = {}
    /\ keywords = <<>>
    /\ sources = <<>>
    /\ target_duration = 0
    /\ use_nvenc = FALSE
    /\ clips = <<>>
    /\ total_duration = 0
    /\ keyword_index = 0
    /\ cache = <<>>
    /\ last = NoCall
    /\ attempts = <<>>
    /\ needed_clips = NeededClips(target_duration)
    /\ downloads = <<>>
    /\ SelIdle
    /\ AsmIdle
    /\ CapIdle
    /\ rpc = [r \in Runs |-> "check"]
    /\ roff = [r \in Runs |-> 0]
    /\ rhit = [r \in Runs |-> <<>>]
    /\ \/ rmeta = FALSE /\ rfile = <<>>
       \/ rmeta = TRUE /\ rfile = <<AllChunks>>
       \/ rmeta = TRUE /\ rfile = <<>>

NextRace ==
    \/ \E r \in Runs : CacheCheck(r)
    \/ \E r \in Runs, found \in BOOLEAN : SearchRequest(r, found)
    \/ \E r \in Runs, ok \in BOOLEAN : DownloadRequest(r, ok)
    \/ \E r \in Runs : OpenFile(r)
    \/ \E r \in Runs : WriteChunk(r)
    \/ \E r \in Runs : StreamFails(r)
    \/ \E r \in Runs : CloseFile(r)
    \/ \E r \in Runs : WriteMeta(r)

SpecRace == InitRace /\ [][NextRace]_vars

----------------------------------------------------------------------------
(* Properties *)

\* source() has returned its clips to run_pipeline.
SourceReturned == "assembly" \in started

\* source() has raised.
SourceRaised == pc = "failed" /\ err = "sourcing_exhausted"

\* assemble() has left the timeline builder, with a track or with an error.
TimelineLeft == pc # "assemble" /\ SourceReturned

\* C1: for every non-empty clip list and every positive target, assemble
\* builds a visual track whose duration is the target duration; it never
\* fails instead of producing the track.
C1_TimelineMatchesTarget ==
    TimelineLeft => final_video = <<target_duration>> /\ err # "no_video_clips"

RECURSIVE SumNative(_)
SumNative(cl) == IF cl = <<>> THEN 0 ELSE cl[1].duration + SumNative(Tail(cl))

\* C2: whenever source() returns, it returns at least 3 clips whose native
\* durations sum to at least the target duration.
C2_ReturnsEnoughClips ==
    SourceReturned => Len(clips) >= 3 /\ SumNative(clips) >= target_duration

\* C3: a stale cache entry (metadata present, media file missing) is treated
\* as a miss: the call goes to the provider and ends as a miss does, and when
\* the provider delivers, the clip is downloaded afresh, recorded and
\* appended; the stale entry raises nothing.
C3_StaleIsMiss ==
    last.look = "stale" =>
        /\ last.outcome \in {"search_failed", "no_candidate", "download_failed", "downloaded"}
        /\ last.outcome = "downloaded" =>
              /\ cache[last.key].file # <<>>
              /\ cache[last.key].file[1].complete
              /\ cache[last.key].meta = <<cache[last.key].file[1].duration>>
              /\ downloads[last.key] >= 1
              /\ clips = Append(last.clips_before,
                                [key |-> last.key, duration |-> cache[last.key].meta[1]])
        /\ (pc = "failed" /\ ~SourceReturned) => err = "sourcing_exhausted" /\ clips = <<>>

C3_Witness ==
    /\ last.look = "stale"
    /\ last.outcome = "downloaded"

\* C4: querying the same (provider, keyword) pair twice within one process
\* issues at most one network download for that pair.
C4_OneDownloadPerPair ==
    \A k \in DOMAIN downloads : downloads[k] <= 1

\* C5: if no attempt of a sourcing call yields a clip, source() raises the
\* sourcing-exhausted error once 2 x keyword-count attempts are used up, the
\* assembly stage never runs and nothing is written.
C5_ExhaustedIsFatal ==
    /\ (pc # "source" /\ clips = <<>>) =>
          /\ SourceRaised
          /\ keyword_index = 2 * Len(keywords)
          /\ "assembly" \notin started
          /\ video_clips = <<>> /\ final_video = <<>>
          /\ encode_writes = <<>> /\ output_path = <<>>
    /\ SourceRaised => clips = <<>>

C5_Witness ==
    /\ SourceRaised
    /\ Len(keywords) = 2
    /\ keyword_index = 4

\* C6: the encoder makes at most two write attempts; the first uses the
\* hardware codec when use_nvenc is configured; a second happens only after
\* a failed first attempt with hardware encoding, and uses the software
\* codec; a failed second attempt, or a failed first attempt without
\* hardware encoding, ends assemble with a fatal error and no output path.
C6_EncoderFallback ==
    LET n == Len(encode_writes)
    IN  /\ n <= 2
        /\ n >= 1 => encode_writes[1].codec = (IF use_nvenc THEN "h264_nvenc" ELSE "libx264")
        /\ n = 2 => /\ use_nvenc
                    /\ ~encode_writes[1].ok
                    /\ encode_writes[2].codec = "libx264"
        /\ (n = 1 /\ ~encode_writes[1].ok /\ use_nvenc) => pc = "encode_retry"
        /\ (n >= 1 /\ ~encode_writes[n].ok /\ (n = 2 \/ ~use_nvenc)) =>
              pc = "failed" /\ err = "encode" /\ output_path = <<>>
        /\ (n >= 1 /\ encode_writes[n].ok) => pc = "done" /\ output_path # <<>>
        /\ output_path # <<>> => n >= 1 /\ encode_writes[n].ok

C6_Witness ==
    /\ Len(encode_writes) = 2
    /\ encode_writes[2].ok
    /\ pc = "done"

FailedAttempt == last.outcome \in {"search_failed", "no_candidate", "download_failed"}

\* C7: a failed search or download never aborts source(): the clip list and
\* the accumulated duration are as before the attempt, and while the loop's
\* condition holds the loop goes on, with the keywords taken in round-robin
\* order.
C7_FailureIsNonFatal ==
    /\ FailedAttempt =>
          /\ clips = last.clips_before
          /\ total_duration = last.total_before
          /\ LoopContinues(total_duration, target_duration, keyword_index, keywords) =>
                pc = "source"
          /\ (pc = "failed" /\ ~SourceReturned) =>
                err = "sourcing_exhausted" /\ keyword_index = 2 * Len(keywords)
    /\ last.key # <<>> =>
          last.key[2] = keywords[((keyword_index - 1) % Len(keywords)) + 1]

C7_Witness ==
    /\ last.outcome = "download_failed"
    /\ clips # <<>>
    /\ pc = "source"

\* C8: N word timestamps are chunked into ceil(N/4) chunks of consecutive
\* words, at most 4 each, that cover every word exactly once in order; a
\* chunk starts at its first word's start and ends at its last word's end.
C8_ChunksPartitionWords ==
    cpc # "words" /\ cpc # "idle" =>
        LET N == Len(words)
        IN  /\ Len(chunks) = (N + 3) \div 4
            /\ \A k \in 1 .. Len(chunks) :
                  LET first == 4 * (k - 1) + 1
                      lastw == IF 4 * k <= N THEN 4 * k ELSE N
                  IN  /\ chunks[k].text = [j \in 1 .. (lastw - first + 1) |-> first + j - 1]
                      /\ Len(chunks[k].text) \in 1 .. 4
                      /\ chunks[k].start = words[first].start
                      /\ chunks[k].end = words[lastw].end

C8_Witness ==
    /\ cpc = "chunked"
    /\ Len(words) = 6
    /\ Len(chunks) = 2

\* The chunks whose interval contains the queried time.
Covering == {k \in 1 .. Len(chunks) : chunks[k].start <= frame_t /\ frame_t <= chunks[k].end}

\* C9 as stated: at most one chunk satisfies start <= t <= end, and a frame
\* outside all chunk intervals is returned unmodified.
C9_AtMostOneChunkCovers ==
    cpc = "frame" =>
        /\ Cardinality(Covering) <= 1
        /\ Covering = {} => frame = <<[t |-> frame_t, caption |-> <<>>]>>

\* C9, amended: the frame carries at most one caption, that of the first
\* chunk in order whose interval contains t; two chunks both contain t only
\* when t is the instant at which the earlier ends and the later starts; a
\* frame outside all chunk intervals is returned unmodified.
C9_FirstCoveringChunkShown ==
    cpc = "frame" =>
        /\ Covering = {} => frame = <<[t |-> frame_t, caption |-> <<>>]>>
        /\ Covering # {} =>
              LET k == CHOOSE k \in Covering : \A j \in Covering : k <= j
              IN  frame = <<[t |-> frame_t, caption |-> <<chunks[k].text>>]>>
        /\ \A j, k \in Covering :
              j < k => chunks[j].end = frame_t /\ chunks[k].start = frame_t

C9_Witness ==
    /\ cpc = "frame"
    /\ Cardinality(Covering) = 2

\* C10: the music layer lasts exactly the target duration; music shorter
\* than the target is repeated floor(T/m)+1 times, which exceeds the target,
\* and then cut to it; without a music path, or with one that does not
\* exist, the audio is the voice track alone.
C10_MusicLayerMatchesTarget ==
    /\ err # "audio"
    /\ final_audio # <<>> =>
          LET a == final_audio[1]
          IN  /\ a.voice = target_duration
              /\ a.music_path # "file" => a.music = <<>>
              /\ a.music_path = "file" =>
                    /\ a.music # <<>>
                    /\ a.music[1].duration = target_duration
                    /\ a.music[1].source < target_duration =>
                          /\ a.music[1].loops = (target_duration \div a.music[1].source) + 1
                          /\ a.music[1].looped = a.music[1].loops * a.music[1].source
                          /\ a.music[1].looped > target_duration
                    /\ a.music[1].source >= target_duration => a.music[1].loops = 1

C10_Witness ==
    /\ final_audio # <<>>
    /\ final_audio[1].music # <<>>
    /\ final_audio[1].music[1].loops >= 2
    /\ final_audio[1].music[1].looped > target_duration + 1

\* C17 as stated: every span on the timeline, first pass and loop pass
\* alike, is at least 0.5 s and at most 8 s long.
C17_EverySpanInRange ==
    \A k \in 1 .. Len(video_clips) :
        /\ 2 * video_clips[k].duration >= TicksPerSec
        /\ video_clips[k].duration <= 8 * TicksPerSec

\* C17, amended: every span is at most 8 s long; a first-pass span is at
\* least 0.5 s long; a loop-pass span may be shorter than 0.5 s, and then it
\* is the last span of the track, the one that fills the remaining target.
C17_FirstPassSpansInRange ==
    \A k \in 1 .. Len(video_clips) :
        /\ video_clips[k].duration > 0
        /\ video_clips[k].duration <= 8 * TicksPerSec
        /\ 2 * video_clips[k].duration < TicksPerSec =>
              video_clips[k].looped /\ k = Len(video_clips)

C17_Witness ==
    /\ Len(video_clips) >= 3
    /\ ~video_clips[2].looped
    /\ video_clips[Len(video_clips)].looped
    /\ 2 * video_clips[Len(video_clips)].duration < TicksPerSec

\* C12: the sourcing loop stops only when the clip count has reached
\* needed_clips and the accumulated duration the target, or when the budget
\* of 2 x keyword-count attempts is used up.
C12_StopsOnlyWhenFilledOrExhausted ==
    pc # "source" =>
        \/ Len(clips) >= needed_clips /\ total_duration >= target_duration
        \/ keyword_index = 2 * Len(keywords)

\* C14: within one source() call each keyword is consulted at most twice,
\* and a (provider, keyword) pair whose attempt yielded no clip is never
\* attempted again.
C14_NoRetryOfFailedPair ==
    /\ \A kw \in 1 .. Len(keywords) :
          Cardinality({i \in 1 .. Len(attempts) : attempts[i].key[2] = kw}) <= 2
    /\ \A i, j \in 1 .. Len(attempts) :
          (i < j /\ attempts[i].key = attempts[j].key) => attempts[i].got

\* C16: every cache hit returned by _search_and_download refers to a media
\* file that a successful download wrote completely, and the metadata
\* duration is that download's.
C16_HitsAreCompleteDownloads ==
    last.outcome = "hit" =>
        /\ cache[last.key].file # <<>>
        /\ cache[last.key].file[1].complete
        /\ cache[last.key].meta = <<cache[last.key].file[1].duration>>

\* C13: for every target duration the number of clips aimed for is
\* max(3, ceil(target / 5 s)).
C13_NeededClipsIsCeiling ==
    pc = "source" =>
        LET per == ClipTargetSec * TicksPerSec
        IN  needed_clips = Max(3, (target_duration + per - 1) \div per)

\* The renditions a candidate offers, in the order of the response.
Offered(c) ==
    IF "video_files" \in DOMAIN c THEN c.video_files
    ELSE c.videos.large \o c.videos.medium \o c.videos.small

Tallest(c) ==
    CHOOSE h \in {Offered(c)[j].height : j \in 1 .. Len(Offered(c))} :
        \A j \in 1 .. Len(Offered(c)) : Offered(c)[j].height <= h

FirstOf(S) == CHOOSE i \in S : \A j \in S : i <= j

\* C15: the download chosen is the tallest rendition of the first candidate
\* whose tallest rendition has height >= 720; only when no candidate has such
\* a rendition is the first rendition present used.
C15_FirstQualifyingCandidate ==
    pc = "searched" =>
        LET qualifying == {i \in 1 .. Len(videos) : \E j \in 1 .. Len(Offered(videos[i])) :
                              Offered(videos[i])[j].height >= 720}
            nonempty   == {i \in 1 .. Len(videos) : Offered(videos[i]) # <<>>}
        IN  IF qualifying # {}
            THEN selected = <<[video |-> FirstOf(qualifying),
                               height |-> Tallest(videos[FirstOf(qualifying)])]>>
            ELSE IF nonempty # {}
            THEN selected = <<[video |-> FirstOf(nonempty),
                               height |-> Offered(videos[FirstOf(nonempty)])[1].height]>>
            ELSE selected = <<>>

\* A run that streamed the whole file has also written the metadata record
\* by the time it is done.
WroteMeta(r) == rpc[r] = "done" /\ roff[r] = MaxChunks

\* C11: with two runs sourcing the same key concurrently, no run gets a cache
\* hit on an incomplete media file, and once both runs have finished, a
\* metadata record that one of them wrote references an existing, completely
\* written media file.
C11_CacheNeedsNoLocking ==
    /\ \A r \in Runs : rhit[r] # <<>> => rhit[r][1].complete
    /\ ((\A r \in Runs : rpc[r] = "done") /\ (\E r \in Runs : WroteMeta(r))) =>
           rmeta /\ rfile # <<>> /\ rfile[1] = AllChunks

====
